---- MODULE Spec2Model ----
(***************************************************************************)
(* Chat-history persistence of bolt.new: the IndexedDB gateway (db.ts) and *)
(* the useChatHistory hook that binds one chat to one view.                *)
(***************************************************************************)
EXTENDS Integers, Sequences, FiniteSets, TLC

\* ------------------------------------------------------------ values ---

\* JavaScript's undefined, for a string-valued slot.
Undef == "<undefined>"

\* JavaScript truthiness of a string-or-undefined value.
Falsy(s) == s = Undef \/ s = ""

\* An optional record is a set holding it, or the empty set (undefined).
None == {}

\* ------------------------------------------------------------ bounds ---

\* Largest value of the wall clock that stamps a write.
MaxClock == 1

\* Primary keys and slugs used by direct gateway calls.
GwIds == {"1", "foo"}
GwUrlIds == {Undef, "", "foo", "foo-2", "1"}
GwMessages == {<<>>, <<"m1">>}
GwDescriptions == {Undef, "T"}

\* View instances that mount the hook, and every caller of openDatabase (the
\* views' initializeDb plus one caller outside the hook).
Mounts == {"m1", "m2"}
Callers == Mounts \cup {"x"}

\* Route ids a view is mounted with, and the artifact the workbench may hold.
RouteIds == {"1", "foo", "9"}
NoArtifact == [id |-> Undef, title |-> Undef]

\* Databases left by earlier runs of the page: none, a chat with a slug, a
\* record saved with no messages.
InitStores ==
  { {},
    {[id |-> "1", messages |-> <<"m1">>, urlId |-> "foo", description |-> "T",
      timestamp |-> 0]},
    {[id |-> "1", messages |-> <<>>, urlId |-> "foo", description |-> Undef,
      timestamp |-> 0]} }
Artifacts == {[id |-> "foo", title |-> "T"]}

\* storeMessageHistory calls made, and the message lists they are given.
SaveSlots == {"s1", "s2"}
SaveMessages == {<<>>, <<"m1", "m2">>}

\* Largest number a primary key is read as.
MaxKeyNumber == 9

\* Allocations made in sequence.
MaxIssued == 4

VARIABLES
  store,            \* the 'chats' object store: a set of records, one per id
  now,              \* the wall clock read by new Date()
  gwOp,             \* last direct gateway operation
  gwKey,            \* its key argument
  gwOutcome,        \* "resolved" or "rejected"
  gwRecs,           \* its record result (optional record)
  gwStr,            \* its string result
  gwArgs,           \* the other arguments of a setMessages call that resolved
  issued,           \* the ids getNextId returned to allocations, in order
  \* db.ts module state and the IndexedDB requests of each openDatabase call
  dbInitAttempted,  \* let dbInitAttempted
  dbInitializing,   \* let dbInitializing
  idbVersion,       \* version of the 'boltHistory' database (0: not created)
  openPhase,        \* per call: the request the call is waiting on
  openResult,       \* per call: state of the promise openDatabase returned
  openWhy,          \* per call: the branch that last ran for it
  openBlocked,      \* per call: onblocked was delivered
  firstOpen,        \* the caller of the first openDatabase call
  probeStarted,     \* calls that issued indexedDB.open('test')
  realStarted,      \* calls that issued indexedDB.open('boltHistory', 1)
  \* useChatHistory module state
  db,               \* let db: "db" once assigned a handle, else "none"
  dbInitialized,    \* let dbInitialized
  hookInitializing, \* let dbInitializing of the hook's module
  chatId,           \* atom chatId
  description,      \* atom description
  \* the page
  persistenceAvailable, \* window.__BOLT_PERSISTENCE_AVAILABLE__
  firstArtifact,    \* workbenchStore.firstArtifact
  location,         \* pathname of the visible URL
  \* per view instance: the route id, React state, position of init()
  mountPc,
  mixedId,
  initialMessages,
  ready,
  urlId,
  redirected,       \* navigate('/') was called by this view's init()
  lookup,           \* storedMessages: what getMessages returned to init()
  handle,           \* const database: what initializeDb() returned to init()
  idbQueue,         \* views and calls with a request on 'chats', oldest first
  \* per storeMessageHistory call
  savePc,           \* the await the call is suspended at
  saveView,         \* the view whose render made the closure called
  saveMsgs,         \* the messages argument
  saveUrlId,        \* urlId as the closure captured it
  saveInitial,      \* initialMessages as the closure captured it
  saveArtifact,     \* const { firstArtifact } = workbenchStore
  saveNewUrlId,     \* const newUrlId (Undef: step 2 assigned no slug)
  saveNextId,       \* const nextId (Undef: step 4 allocated no key)
  saveRec,          \* the record handed to store.put (optional)
  saveNavs,         \* targets of the call's navigateChat calls, in order
  saveOps,          \* gateway operations the call issued
  saveFailed,       \* the gateway operation that rejected (Undef: none)
  saveOutcome       \* state of the promise storeMessageHistory returned

storeVars == <<store, now>>
gwVars == <<gwOp, gwKey, gwOutcome, gwRecs, gwStr, gwArgs, issued>>
openVars == <<dbInitAttempted, dbInitializing, idbVersion, openPhase, openResult,
              openWhy, openBlocked, firstOpen, probeStarted, realStarted>>
hookVars == <<db, dbInitialized, hookInitializing>>
atomVars == <<chatId, description>>
pageVars == <<persistenceAvailable, firstArtifact>>
viewVars == <<mountPc, mixedId, initialMessages, ready, urlId, redirected, lookup,
              handle>>
saveVars == <<savePc, saveView, saveMsgs, saveUrlId, saveInitial, saveArtifact,
              saveNewUrlId, saveNextId, saveRec, saveNavs, saveOps, saveFailed,
              saveOutcome>>
sessVars == <<hookVars, atomVars, pageVars, location, viewVars, saveVars,
              idbQueue>>
vars == <<storeVars, gwVars, openVars, sessVars>>

\* No direct gateway operation yet.
GwIdle ==
  /\ gwOp = "none"
  /\ gwKey = Undef
  /\ gwOutcome = "resolved"
  /\ gwRecs = None
  /\ gwStr = Undef
  /\ gwArgs = None
  /\ issued = <<>>

\* db.ts as loaded: no openDatabase call yet.
OpenIdle ==
  /\ dbInitAttempted = FALSE
  /\ dbInitializing = FALSE
  /\ openPhase = [c \in Callers |-> "idle"]
  /\ openResult = [c \in Callers |-> "none"]
  /\ openWhy = [c \in Callers |-> "none"]
  /\ openBlocked = [c \in Callers |-> FALSE]
  /\ firstOpen = Undef
  /\ probeStarted = {}
  /\ realStarted = {}

\* The hook's module as loaded, no view mounted.
SessIdle ==
  /\ db = "none"
  /\ dbInitialized = FALSE
  /\ hookInitializing = FALSE
  /\ chatId = Undef
  /\ description = Undef
  /\ firstArtifact = NoArtifact
  /\ location = "/"
  /\ mountPc = [m \in Mounts |-> "unmounted"]
  /\ mixedId = [m \in Mounts |-> Undef]
  /\ initialMessages = [m \in Mounts |-> <<>>]
  /\ ready = [m \in Mounts |-> FALSE]
  /\ urlId = [m \in Mounts |-> Undef]
  /\ redirected = [m \in Mounts |-> FALSE]
  /\ lookup = [m \in Mounts |-> None]
  /\ handle = [m \in Mounts |-> "unset"]
  /\ idbQueue = <<>>
  /\ savePc = [k \in SaveSlots |-> "idle"]
  /\ saveView = [k \in SaveSlots |-> Undef]
  /\ saveMsgs = [k \in SaveSlots |-> <<>>]
  /\ saveUrlId = [k \in SaveSlots |-> Undef]
  /\ saveInitial = [k \in SaveSlots |-> <<>>]
  /\ saveArtifact = [k \in SaveSlots |-> NoArtifact]
  /\ saveNewUrlId = [k \in SaveSlots |-> Undef]
  /\ saveNextId = [k \in SaveSlots |-> Undef]
  /\ saveRec = [k \in SaveSlots |-> None]
  /\ saveNavs = [k \in SaveSlots |-> <<>>]
  /\ saveOps = [k \in SaveSlots |-> {}]
  /\ saveFailed = [k \in SaveSlots |-> Undef]
  /\ saveOutcome = [k \in SaveSlots |-> "none"]

\* ------------------------------------------------- the object store ---

\* Keys of the store (keyPath 'id').
Keys(st) == {r.id : r \in st}

\* IDBObjectStore.get(id): the record with that primary key, if any.
StoreGet(st, id) == {r \in st : r.id = id}

\* IDBIndex('urlId').get(key): a record is in the index only when its urlId
\* is a valid key (undefined is not).
IndexGet(st, key) == {r \in st : r.urlId # Undef /\ r.urlId = key}

\* A mutation of PutViolatesUnique: the index on urlId is not unique.
PutViolatesUniqueNever(st, rec) == FALSE

\* The unique index on urlId rejects a put whose urlId another record holds.
PutViolatesUnique(st, rec) ==
  /\ rec.urlId # Undef
  /\ \E r \in st : r.id # rec.id /\ r.urlId = rec.urlId

\* A mutation of StorePut: a field the new record leaves undefined is kept
\* from the record it replaces.
StorePutMerging(st, rec) ==
  LET Kept(old, new) == IF new = Undef THEN old ELSE new
      Merged(old) == [rec EXCEPT !.urlId = Kept(old.urlId, @),
                                 !.description = Kept(old.description, @)]
  IN  {r \in st : r.id # rec.id}
        \cup (IF \E r \in st : r.id = rec.id
              THEN {Merged(r) : r \in {x \in st : x.id = rec.id}}
              ELSE {rec})

\* IDBObjectStore.put(rec): replaces the record with the same key.
StorePut(st, rec) == {r \in st : r.id # rec.id} \cup {rec}

\* IDBObjectStore.delete(id).
StoreDelete(st, id) == {r \in st : r.id # id}

\* ------------------------------------------------ gateway functions ---

\* A mutation of MakeRecord: the key is written as the slug too.
MakeRecordSlugIsId(id, messages, slug, desc, ts) ==
  [id |-> id, messages |-> messages, urlId |-> id,
   description |-> desc, timestamp |-> ts]

\* The record setMessages builds.
MakeRecord(id, messages, slug, desc, ts) ==
  [id |-> id, messages |-> messages, urlId |-> slug,
   description |-> desc, timestamp |-> ts]

getMessagesById(st, id) == StoreGet(st, id)

getMessagesByUrlId(st, id) == IndexGet(st, id)

\* A mutation of getMessages: secondary lookup first.
getMessagesUrlIdFirst(st, id) ==
  LET byUrl == getMessagesByUrlId(st, id)
  IN  IF byUrl # None THEN byUrl ELSE getMessagesById(st, id)

\* (await getMessagesById(db, id)) || (await getMessagesByUrlId(db, id))
getMessages(st, id) ==
  LET byId == getMessagesById(st, id)
  IN  IF byId # None THEN byId ELSE getMessagesByUrlId(st, id)

\* getUrlIds: the cursor walk collects every truthy urlId.
getUrlIds(st) == {r.urlId : r \in {q \in st : ~Falsy(q.urlId)}}

\* `${id}-${i}`
Suffixed(id, i) == id \o "-" \o ToString(i)

\* while (idList.includes(`${id}-${i}`)) i++
RECURSIVE ProbeSuffix(_, _, _)
ProbeSuffix(idList, id, i) ==
  IF Suffixed(id, i) \in idList THEN ProbeSuffix(idList, id, i + 1) ELSE i

getUrlId(st, id) ==
  LET idList == getUrlIds(st)
  IN  IF id \notin idList THEN id ELSE Suffixed(id, ProbeSuffix(idList, id, 2))

\* Number coercion (+key): a decimal string is its number, '' is 0, anything
\* else is NaN.
NaN == -1
ToNumber(str) ==
  IF str = "" THEN 0
  ELSE IF \E n \in 0..MaxKeyNumber : ToString(n) = str
  THEN CHOOSE n \in 0..MaxKeyNumber : ToString(n) = str
  ELSE NaN

\* Math.max(a, b)
MathMax(a, b) == IF a = NaN \/ b = NaN THEN NaN ELSE IF a >= b THEN a ELSE b

\* request.result.reduce((cur, acc) => Math.max(+cur, +acc), 0)
RECURSIVE ReduceMax(_, _)
ReduceMax(keys, acc) ==
  IF keys = {} THEN acc
  ELSE LET k == CHOOSE x \in keys : TRUE
       IN  ReduceMax(keys \ {k}, MathMax(acc, ToNumber(k)))

\* String(+highestId + 1)
getNextId(st) ==
  LET highestId == ReduceMax(Keys(st), 0)
  IN  IF highestId = NaN THEN "NaN" ELSE ToString(highestId + 1)

\* ------------------------------------------------- openDatabase ---

\* A mutation of OpenGuard: only the finished attempt is looked at.
OpenGuardAttemptedOnly == dbInitAttempted

\* if (dbInitAttempted || dbInitializing) return undefined;
OpenGuard == dbInitAttempted \/ dbInitializing

\* resolve(v) of the promise of call c: a promise settles once.
Resolve(c, v) ==
  openResult' = [openResult EXCEPT ![c] = IF @ = "pending" THEN v ELSE @]

\* A mutation of MarkAttempted: the in-progress flag is left set.
MarkAttemptedOnly ==
  /\ dbInitAttempted' = TRUE
  /\ dbInitializing' = dbInitializing

\* dbInitAttempted = true; dbInitializing = false;
MarkAttempted ==
  /\ dbInitAttempted' = TRUE
  /\ dbInitializing' = FALSE

\* The synchronous part of openDatabase() for call c: the guard, then the
\* promise executor up to indexedDB.open('test'). env is what the executor
\* meets: no usable IndexedDB, an open that throws, or a probe request.
OpenDatabaseBody(c, env) ==
  /\ openPhase[c] = "idle"
  /\ firstOpen' = IF firstOpen = Undef THEN c ELSE firstOpen
  /\ IF OpenGuard
     THEN /\ openResult' = [openResult EXCEPT ![c] = "undefined"]
          /\ openPhase' = [openPhase EXCEPT ![c] = "closed"]
          /\ openWhy' = [openWhy EXCEPT ![c] = "guard"]
          /\ UNCHANGED <<dbInitAttempted, dbInitializing, probeStarted>>
     ELSE IF env = "noIndexedDB"
     THEN /\ MarkAttempted
          /\ openResult' = [openResult EXCEPT ![c] = "undefined"]
          /\ openPhase' = [openPhase EXCEPT ![c] = "closed"]
          /\ openWhy' = [openWhy EXCEPT ![c] = "noIndexedDB"]
          /\ UNCHANGED probeStarted
     ELSE IF env = "openThrows"
     THEN /\ MarkAttempted
          /\ openResult' = [openResult EXCEPT ![c] = "undefined"]
          /\ openPhase' = [openPhase EXCEPT ![c] = "closed"]
          /\ openWhy' = [openWhy EXCEPT ![c] = "openThrew"]
          /\ probeStarted' = probeStarted \cup {c}
     ELSE /\ dbInitAttempted' = dbInitAttempted
          /\ dbInitializing' = TRUE
          /\ openResult' = [openResult EXCEPT ![c] = "pending"]
          /\ openPhase' = [openPhase EXCEPT ![c] = "probe"]
          /\ openWhy' = [openWhy EXCEPT ![c] = "probing"]
          /\ probeStarted' = probeStarted \cup {c}
  /\ UNCHANGED <<idbVersion, openBlocked, realStarted>>

OpenEnvs == {"noIndexedDB", "openThrows", "probe"}

\* A caller outside the hook calls openDatabase().
OpenDatabaseCall(c) ==
  /\ \E env \in OpenEnvs : OpenDatabaseBody(c, env)
  /\ UNCHANGED <<storeVars, gwVars, sessVars>>

\* testRequest.onerror
TestRequestOnError(c) ==
  /\ openPhase[c] = "probe"
  /\ MarkAttempted
  /\ Resolve(c, "undefined")
  /\ openPhase' = [openPhase EXCEPT ![c] = "closed"]
  /\ openWhy' = [openWhy EXCEPT ![c] = "probeError"]
  /\ UNCHANGED <<idbVersion, openBlocked, firstOpen, probeStarted, realStarted>>
  /\ UNCHANGED <<storeVars, gwVars, sessVars>>

\* testRequest.onsuccess: drop the probe database, open the real one.
TestRequestOnSuccess(c) ==
  /\ openPhase[c] = "probe"
  /\ openPhase' = [openPhase EXCEPT ![c] = "real"]
  /\ openWhy' = [openWhy EXCEPT ![c] = "opening"]
  /\ realStarted' = realStarted \cup {c}
  /\ UNCHANGED <<dbInitAttempted, dbInitializing, idbVersion, openResult,
                 openBlocked, firstOpen, probeStarted>>
  /\ UNCHANGED <<storeVars, gwVars, sessVars>>

\* request.onblocked: the upgrade waits for another connection; the request
\* stays pending.
RequestOnBlocked(c) ==
  /\ openPhase[c] = "real"
  /\ idbVersion = 0
  /\ ~openBlocked[c]
  /\ MarkAttempted
  /\ Resolve(c, "undefined")
  /\ openBlocked' = [openBlocked EXCEPT ![c] = TRUE]
  /\ openWhy' = [openWhy EXCEPT ![c] = "blocked"]
  /\ UNCHANGED <<idbVersion, openPhase, firstOpen, probeStarted, realStarted>>
  /\ UNCHANGED <<storeVars, gwVars, sessVars>>

\* request.onupgradeneeded: create the 'chats' store and its two indexes.
RequestOnUpgradeNeeded(c) ==
  /\ openPhase[c] = "real"
  /\ idbVersion = 0
  /\ idbVersion' = 1
  /\ UNCHANGED <<dbInitAttempted, dbInitializing, openPhase, openResult, openWhy,
                 openBlocked, firstOpen, probeStarted, realStarted>>
  /\ UNCHANGED <<storeVars, gwVars, sessVars>>

\* request.onerror
RequestOnError(c) ==
  /\ openPhase[c] = "real"
  /\ MarkAttempted
  /\ Resolve(c, "undefined")
  /\ openPhase' = [openPhase EXCEPT ![c] = "closed"]
  /\ openWhy' = [openWhy EXCEPT ![c] = "openError"]
  /\ UNCHANGED <<idbVersion, openBlocked, firstOpen, probeStarted, realStarted>>
  /\ UNCHANGED <<storeVars, gwVars, sessVars>>

\* request.onsuccess: start the read-only test transaction; db.transaction
\* may throw, which the handler catches.
RequestOnSuccess(c) ==
  /\ openPhase[c] = "real"
  /\ idbVersion = 1
  /\ \E transactionThrows \in BOOLEAN :
       IF transactionThrows
       THEN /\ MarkAttempted
            /\ Resolve(c, "undefined")
            /\ openPhase' = [openPhase EXCEPT ![c] = "closed"]
            /\ openWhy' = [openWhy EXCEPT ![c] = "txThrew"]
       ELSE /\ openPhase' = [openPhase EXCEPT ![c] = "tx"]
            /\ openWhy' = [openWhy EXCEPT ![c] = "testing"]
            /\ UNCHANGED <<dbInitAttempted, dbInitializing, openResult>>
  /\ UNCHANGED <<idbVersion, openBlocked, firstOpen, probeStarted, realStarted>>
  /\ UNCHANGED <<storeVars, gwVars, sessVars>>

\* transaction.oncomplete
TransactionOnComplete(c) ==
  /\ openPhase[c] = "tx"
  /\ MarkAttempted
  /\ Resolve(c, "db")
  /\ openPhase' = [openPhase EXCEPT ![c] = "closed"]
  /\ openWhy' = [openWhy EXCEPT ![c] = "txComplete"]
  /\ UNCHANGED <<idbVersion, openBlocked, firstOpen, probeStarted, realStarted>>
  /\ UNCHANGED <<storeVars, gwVars, sessVars>>

\* transaction.onerror
TransactionOnError(c) ==
  /\ openPhase[c] = "tx"
  /\ MarkAttempted
  /\ Resolve(c, "undefined")
  /\ openPhase' = [openPhase EXCEPT ![c] = "closed"]
  /\ openWhy' = [openWhy EXCEPT ![c] = "txError"]
  /\ UNCHANGED <<idbVersion, openBlocked, firstOpen, probeStarted, realStarted>>
  /\ UNCHANGED <<storeVars, gwVars, sessVars>>

\* The events IndexedDB delivers to the requests of call c.
OpenEvents(c) ==
  \/ TestRequestOnError(c)
  \/ TestRequestOnSuccess(c)
  \/ RequestOnBlocked(c)
  \/ RequestOnUpgradeNeeded(c)
  \/ RequestOnError(c)
  \/ RequestOnSuccess(c)
  \/ TransactionOnComplete(c)
  \/ TransactionOnError(c)

\* openDatabase under arbitrary callers; the database may or may not exist.
OpenInit ==
  /\ store = {}
  /\ now = 0
  /\ GwIdle
  /\ OpenIdle
  /\ idbVersion \in {0, 1}
  /\ SessIdle
  /\ persistenceAvailable = TRUE

OpenNext ==
  \E c \in Callers :
    \/ OpenDatabaseCall(c)
    \/ OpenEvents(c)

SpecOpen == OpenInit /\ [][OpenNext]_vars

\* IndexedDB answers every request: the probe with success or error, the real
\* open with success or error (after an upgrade when one is needed), the
\* test transaction with complete or error.
OpenFairness ==
  \A c \in Callers :
    /\ WF_vars(TestRequestOnError(c) \/ TestRequestOnSuccess(c))
    /\ WF_vars(RequestOnUpgradeNeeded(c) \/ RequestOnError(c) \/ RequestOnSuccess(c))
    /\ WF_vars(TransactionOnComplete(c) \/ TransactionOnError(c))

LiveSpecOpen == OpenInit /\ [][OpenNext]_vars /\ OpenFairness

\* ------------------------------------------ claims on openDatabase ---

\* C1: at most one attempt to open the real database is ever started; every
\* call made after the first call has started (in flight, succeeded or failed)
\* returns undefined at once without starting a probe or an open.
C1_SingleOpenAttempt ==
  /\ Cardinality(realStarted) <= 1
  /\ Cardinality(probeStarted) <= 1
  /\ \A c \in Callers :
       (openPhase[c] # "idle" /\ c # firstOpen) =>
         /\ openResult[c] = "undefined"
         /\ openPhase[c] = "closed"
         /\ c \notin probeStarted \cup realStarted

\* C1 witness: a second call made while the first attempt is in flight and a
\* third made after it ended, with the real open started once.
C1_Witness ==
  \E c1 \in Callers, c2 \in Callers, c3 \in Callers :
    /\ c1 = firstOpen /\ c2 # c1 /\ c3 # c1 /\ c3 # c2
    /\ realStarted = {c1}
    /\ openPhase[c1] = "tx"
    /\ openWhy[c2] = "guard"
    /\ openPhase[c3] = "idle"

\* Branches of openDatabase that end in failure.
OpenFailures ==
  {"noIndexedDB", "openThrew", "probeError", "openError", "blocked", "txThrew",
   "txError"}

\* C2 (state part): a call never rejects; after any failure branch its promise
\* holds undefined; once the first call's promise is settled the flags are
\* dbInitAttempted = true and dbInitializing = false.
C2_OpenSettled ==
  \A c \in Callers :
    /\ openResult[c] \in {"none", "pending", "db", "undefined"}
    /\ openPhase[c] # "idle" => openResult[c] # "none"
    /\ openWhy[c] \in OpenFailures =>
         /\ openResult[c] = "undefined"
         /\ dbInitAttempted /\ ~dbInitializing
    /\ (c = firstOpen /\ openResult[c] \in {"db", "undefined"}) =>
         dbInitAttempted /\ ~dbInitializing

\* C2: every openDatabase() call eventually resolves, with a handle or with
\* undefined, never rejecting; every failure outcome resolves undefined and
\* ends with dbInitAttempted = true and dbInitializing = false.
C2_OpenAlwaysResolves ==
  /\ []C2_OpenSettled
  /\ \A c \in Callers :
       (openResult[c] = "pending") ~> (openResult[c] \in {"db", "undefined"})

\* C2 witness: the open was blocked, resolved undefined, and later completed.
C2_Witness ==
  \E c \in Callers :
    /\ openBlocked[c]
    /\ openWhy[c] = "txComplete"
    /\ openResult[c] = "undefined"
    /\ dbInitAttempted /\ ~dbInitializing

\* ----------------------------------------------- direct gateway use ---

\* new Date() advances on its own.
Tick ==
  /\ now < MaxClock
  /\ now' = now + 1
  /\ UNCHANGED <<store, gwVars, openVars, sessVars>>

\* setMessages(db, id, messages, urlId, description)
GwSetMessages ==
  \E id \in GwIds, ms \in GwMessages, u \in GwUrlIds, d \in GwDescriptions,
     engineFails \in BOOLEAN :
    LET rec == MakeRecord(id, ms, u, d, now)
        rejected == engineFails \/ PutViolatesUnique(store, rec)
    IN  /\ store' = IF rejected THEN store ELSE StorePut(store, rec)
        /\ gwOp' = "setMessages"
        /\ gwKey' = id
        /\ gwOutcome' = IF rejected THEN "rejected" ELSE "resolved"
        /\ gwRecs' = None
        /\ gwStr' = Undef
        /\ gwArgs' = IF rejected THEN None
                      ELSE {[messages |-> ms, urlId |-> u, description |-> d]}
        /\ UNCHANGED <<now, issued, openVars, sessVars>>

\* deleteById(db, id)
GwDeleteById ==
  \E id \in GwIds, engineFails \in BOOLEAN :
    /\ store' = IF engineFails THEN store ELSE StoreDelete(store, id)
    /\ gwOp' = "deleteById"
    /\ gwKey' = id
    /\ gwOutcome' = IF engineFails THEN "rejected" ELSE "resolved"
    /\ gwRecs' = None
    /\ gwStr' = Undef
    /\ gwArgs' = None
    /\ UNCHANGED <<now, issued, openVars, sessVars>>

\* getMessages(db, id)
GwGetMessages ==
  \E id \in GwIds \cup (GwUrlIds \ {Undef}), engineFails \in BOOLEAN :
    /\ gwOp' = "getMessages"
    /\ gwKey' = id
    /\ gwOutcome' = IF engineFails THEN "rejected" ELSE "resolved"
    /\ gwRecs' = IF engineFails THEN None ELSE getMessages(store, id)
    /\ gwStr' = Undef
    /\ gwArgs' = None
    /\ UNCHANGED <<storeVars, issued, openVars, sessVars>>

\* getUrlId(db, id)
GwGetUrlId ==
  \E id \in GwUrlIds \ {Undef}, engineFails \in BOOLEAN :
    /\ gwOp' = "getUrlId"
    /\ gwKey' = id
    /\ gwOutcome' = IF engineFails THEN "rejected" ELSE "resolved"
    /\ gwRecs' = None
    /\ gwStr' = IF engineFails THEN Undef ELSE getUrlId(store, id)
    /\ gwArgs' = None
    /\ UNCHANGED <<storeVars, issued, openVars, sessVars>>

\* getNextId(db)
GwGetNextId ==
  \E engineFails \in BOOLEAN :
    /\ gwOp' = "getNextId"
    /\ gwKey' = Undef
    /\ gwOutcome' = IF engineFails THEN "rejected" ELSE "resolved"
    /\ gwRecs' = None
    /\ gwStr' = IF engineFails THEN Undef ELSE getNextId(store)
    /\ gwArgs' = None
    /\ UNCHANGED <<storeVars, issued, openVars, sessVars>>

\* The gateway used directly on an opened, empty database.
GwInit ==
  /\ store = {}
  /\ now = 0
  /\ GwIdle
  /\ OpenIdle
  /\ idbVersion = 1
  /\ SessIdle
  /\ persistenceAvailable = TRUE

GwNext ==
  \/ Tick
  \/ GwSetMessages
  \/ GwDeleteById
  \/ GwGetMessages
  \/ GwGetUrlId
  \/ GwGetNextId

SpecGateway == GwInit /\ [][GwNext]_vars

\* ------------------------------- allocating and deleting, in sequence ---

\* An allocation begins: getNextId(db) answers with the next key.
AllocGetNextId ==
  /\ gwOp # "getNextId"
  /\ Len(issued) < MaxIssued
  /\ LET nextId == getNextId(store)
     IN  /\ gwStr' = nextId
         /\ issued' = Append(issued, nextId)
  /\ gwOp' = "getNextId"
  /\ gwKey' = Undef
  /\ gwOutcome' = "resolved"
  /\ gwRecs' = None
  /\ gwArgs' = None
  /\ UNCHANGED <<storeVars, openVars, sessVars>>

\* The allocation ends: setMessages(db, nextId, messages) with the key that
\* getNextId returned.
AllocSetMessages ==
  /\ gwOp = "getNextId"
  /\ \E ms \in GwMessages :
       /\ store' = StorePut(store, MakeRecord(gwStr, ms, Undef, Undef, now))
       /\ gwArgs' = {[messages |-> ms, urlId |-> Undef, description |-> Undef]}
  /\ gwOp' = "setMessages"
  /\ gwKey' = gwStr
  /\ gwOutcome' = "resolved"
  /\ gwRecs' = None
  /\ gwStr' = Undef
  /\ UNCHANGED <<now, issued, openVars, sessVars>>

\* deleteById(db, id) of a stored chat, between allocations.
AllocDeleteById ==
  /\ gwOp # "getNextId"
  /\ \E id \in Keys(store) :
       /\ store' = StoreDelete(store, id)
       /\ gwKey' = id
  /\ gwOp' = "deleteById"
  /\ gwOutcome' = "resolved"
  /\ gwRecs' = None
  /\ gwStr' = Undef
  /\ gwArgs' = None
  /\ UNCHANGED <<now, issued, openVars, sessVars>>

AllocNext ==
  \/ AllocGetNextId
  \/ AllocSetMessages
  \/ AllocDeleteById

\* One caller allocates keys and deletes chats, one operation at a time, on
\* an opened, empty database.
SpecAlloc == GwInit /\ [][AllocNext]_vars

\* ------------------------------------------- useChatHistory: mount ---

\* Each gateway operation runs in a transaction of its own on 'chats'. The
\* engine starts transactions on one store in the order they were created,
\* except that read-only ones may run side by side: an answer never overtakes
\* an earlier write, and a write never overtakes an earlier request.
IsWrite(who) == who \in SaveSlots /\ savePc[who] = "awaitSetMessages"

\* A mutation of CanAnswer: requests are answered in any order.
CanAnswerInAnyOrder(who) == \E i \in 1..Len(idbQueue) : idbQueue[i] = who

CanAnswer(who) ==
  \E i \in 1..Len(idbQueue) :
    /\ idbQueue[i] = who
    /\ \A j \in 1..(i - 1) : ~IsWrite(idbQueue[j]) /\ ~IsWrite(who)

\* The queue once the request of `who` has been answered.
Answered(who) ==
  LET Others(x) == x # who IN SelectSeq(idbQueue, Others)

\* url.pathname = `/chat/${nextId}`
Path(id) == "/chat/" \o id

\* A mutation of HasMessages: any record found counts as loaded.
HasMessagesAnyRecord(recs) == recs # None

\* storedMessages && storedMessages.messages.length > 0
HasMessages(recs) == recs # None /\ \A r \in recs : Len(r.messages) > 0

\* ready: !mixedId || ready
ReturnedReady(m) == Falsy(mixedId[m]) \/ ready[m]

\* init() once initializeDb() has returned `database` to the view mounted with
\* route id `id`; loc is the visible path when init() does not redirect.
AfterInit(m, id, database, loc) ==
  /\ handle' = [handle EXCEPT ![m] = database]
  /\ IF ~Falsy(id) /\ database = "none"
     THEN /\ location' = "/"
          /\ redirected' = [redirected EXCEPT ![m] = TRUE]
          /\ ready' = [ready EXCEPT ![m] = TRUE]
          /\ mountPc' = [mountPc EXCEPT ![m] = "done"]
          /\ UNCHANGED idbQueue
     ELSE IF ~Falsy(id)
     THEN /\ mountPc' = [mountPc EXCEPT ![m] = "awaitById"]
          /\ idbQueue' = Append(idbQueue, m)
          /\ location' = loc
          /\ UNCHANGED <<redirected, ready>>
     ELSE /\ ready' = [ready EXCEPT ![m] = TRUE]
          /\ mountPc' = [mountPc EXCEPT ![m] = "done"]
          /\ location' = loc
          /\ UNCHANGED <<redirected, idbQueue>>

\* A mutation of FinishLookup: a rejected lookup leaves init() without
\* setReady.
FinishLookupNoReadyOnReject(m, recs, rejected) ==
  /\ lookup' = [lookup EXCEPT ![m] = recs]
  /\ IF ~rejected /\ HasMessages(recs)
     THEN LET r == CHOOSE x \in recs : TRUE
          IN  /\ initialMessages' = [initialMessages EXCEPT ![m] = r.messages]
              /\ urlId' = [urlId EXCEPT ![m] = r.urlId]
              /\ description' = r.description
              /\ chatId' = r.id
              /\ UNCHANGED <<location, redirected>>
     ELSE /\ location' = "/"
          /\ redirected' = [redirected EXCEPT ![m] = TRUE]
          /\ UNCHANGED <<initialMessages, urlId, description, chatId>>
  /\ ready' = [ready EXCEPT ![m] = IF rejected THEN @ ELSE TRUE]
  /\ mountPc' = [mountPc EXCEPT ![m] = "done"]

\* init() once getMessages has returned recs or rejected: hydrate or redirect,
\* then setReady(true).
FinishLookup(m, recs, rejected) ==
  /\ lookup' = [lookup EXCEPT ![m] = recs]
  /\ IF ~rejected /\ HasMessages(recs)
     THEN LET r == CHOOSE x \in recs : TRUE
          IN  /\ initialMessages' = [initialMessages EXCEPT ![m] = r.messages]
              /\ urlId' = [urlId EXCEPT ![m] = r.urlId]
              /\ description' = r.description
              /\ chatId' = r.id
              /\ UNCHANGED <<location, redirected>>
     ELSE /\ location' = "/"
          /\ redirected' = [redirected EXCEPT ![m] = TRUE]
          /\ UNCHANGED <<initialMessages, urlId, description, chatId>>
  /\ ready' = [ready EXCEPT ![m] = TRUE]
  /\ mountPc' = [mountPc EXCEPT ![m] = "done"]

\* The mount effect of a view on route id `id` (none: Undef): init() up to its
\* first await, through initializeDb() and the synchronous part of
\* openDatabase(). Views mount in order.
Mount(m) ==
  /\ mountPc[m] = "unmounted"
  /\ \A j \in Mounts : (j # m /\ mountPc[j] = "unmounted") => m = "m1"
  /\ \E id \in RouteIds \cup {Undef} :
       /\ mixedId' = [mixedId EXCEPT ![m] = id]
       /\ LET loc == IF id = Undef THEN "/" ELSE Path(id)
          IN  IF dbInitialized \/ hookInitializing
              THEN /\ AfterInit(m, id, db, loc)
                   /\ UNCHANGED <<hookVars, openVars>>
              ELSE IF ~persistenceAvailable
              THEN /\ AfterInit(m, id, "none", loc)
                   /\ UNCHANGED <<hookVars, openVars>>
              ELSE /\ hookInitializing' = TRUE
                   /\ \E env \in OpenEnvs : OpenDatabaseBody(m, env)
                   /\ mountPc' = [mountPc EXCEPT ![m] = "awaitInit"]
                   /\ location' = loc
                   /\ UNCHANGED <<db, dbInitialized, ready, redirected, handle,
                                  idbQueue>>
  /\ UNCHANGED <<storeVars, gwVars, atomVars, pageVars, initialMessages, urlId,
                 lookup, saveVars>>

\* initializeDb() resumes after `await openDatabase()`, then init() goes on.
MountInitResume(m) ==
  /\ mountPc[m] = "awaitInit"
  /\ openResult[m] \in {"db", "undefined"}
  /\ LET h == IF openResult[m] = "db" THEN "db" ELSE "none"
     IN  /\ db' = h
         /\ dbInitialized' = IF h = "db" THEN TRUE ELSE dbInitialized
         /\ hookInitializing' = FALSE
         /\ AfterInit(m, mixedId[m], h, location)
  /\ UNCHANGED <<storeVars, gwVars, openVars, atomVars, pageVars, mixedId,
                 initialMessages, urlId, lookup, saveVars>>

\* getMessages: the primary lookup answers (or fails).
MountByIdResume(m) ==
  /\ mountPc[m] = "awaitById"
  /\ CanAnswer(m)
  /\ \E engineFails \in BOOLEAN :
       IF engineFails
       THEN /\ FinishLookup(m, None, TRUE)
            /\ idbQueue' = Answered(m)
       ELSE LET byId == getMessagesById(store, mixedId[m])
            IN  IF byId # None
                THEN /\ FinishLookup(m, byId, FALSE)
                     /\ idbQueue' = Answered(m)
                ELSE /\ mountPc' = [mountPc EXCEPT ![m] = "awaitByUrlId"]
                     /\ idbQueue' = Append(Answered(m), m)
                     /\ UNCHANGED <<lookup, initialMessages, urlId, description,
                                    chatId, location, redirected, ready>>
  /\ UNCHANGED <<storeVars, gwVars, openVars, hookVars, pageVars, mixedId,
                 handle, saveVars>>

\* getMessages: the secondary lookup answers (or fails).
MountByUrlIdResume(m) ==
  /\ mountPc[m] = "awaitByUrlId"
  /\ CanAnswer(m)
  /\ \E engineFails \in BOOLEAN :
       IF engineFails
       THEN FinishLookup(m, None, TRUE)
       ELSE FinishLookup(m, getMessagesByUrlId(store, mixedId[m]), FALSE)
  /\ idbQueue' = Answered(m)
  /\ UNCHANGED <<storeVars, gwVars, openVars, hookVars, pageVars, mixedId,
                 handle, saveVars>>

MountSteps(m) ==
  \/ Mount(m)
  \/ MountInitResume(m)
  \/ MountByIdResume(m)
  \/ MountByUrlIdResume(m)

\* Views mounting on a page whose database an earlier run may have filled.
MountInit ==
  /\ store \in InitStores
  /\ now = 0
  /\ GwIdle
  /\ OpenIdle
  /\ idbVersion \in (IF store = {} THEN {0, 1} ELSE {1})
  /\ SessIdle
  /\ persistenceAvailable \in BOOLEAN

MountNext ==
  \E m \in Mounts :
    \/ MountSteps(m)
    \/ OpenEvents(m)

SpecMount == MountInit /\ [][MountNext]_vars

\* A promise continuation of init() runs once its promise settles, and
\* IndexedDB answers every lookup.
MountFairness ==
  \A m \in Mounts :
    /\ WF_vars(MountInitResume(m))
    /\ WF_vars(MountByIdResume(m))
    /\ WF_vars(MountByUrlIdResume(m))

LiveSpecMount == MountInit /\ [][MountNext]_vars /\ OpenFairness /\ MountFairness

\* ------------------------------------------- claims on the mount ---

\* C3: on a mount with a route id and a handle, the session hydrates
\* (initialMessages, urlId, description, chatId from the stored record) and
\* does not redirect iff getMessages returned a record with at least one
\* message; otherwise (not found, no messages, rejected) it redirects to '/'
\* and sets none of the four.
C3_HydrateIffMessages ==
  [][\A m \in Mounts :
       (mountPc[m] \in {"awaitById", "awaitByUrlId"} /\ mountPc'[m] = "done") =>
         IF lookup'[m] # None /\ \A r \in lookup'[m] : Len(r.messages) >= 1
         THEN \E r \in lookup'[m] :
                /\ initialMessages'[m] = r.messages
                /\ urlId'[m] = r.urlId
                /\ description' = r.description
                /\ chatId' = r.id
                /\ redirected'[m] = FALSE
                /\ location' = location
         ELSE /\ redirected'[m] = TRUE
              /\ location' = "/"
              /\ initialMessages'[m] = initialMessages[m]
              /\ urlId'[m] = urlId[m]
              /\ description' = description
              /\ chatId' = chatId]_vars

\* C3 witness: route id "foo" missed the primary lookup, hit the slug, and the
\* view was hydrated from that record.
C3_Witness ==
  \E m \in Mounts :
    /\ mountPc[m] = "done"
    /\ mixedId[m] = "foo"
    /\ ~redirected[m]
    /\ \E r \in lookup[m] :
         /\ r.urlId = "foo" /\ r.id = "1"
         /\ initialMessages[m] = r.messages
         /\ chatId = r.id

\* C3 witness of the other side: a record with no messages was found and the
\* view redirected.
C3_EmptyRecordRedirected ==
  \E m \in Mounts :
    /\ mountPc[m] = "done"
    /\ lookup[m] # None
    /\ redirected[m]
    /\ initialMessages[m] = <<>>

\* C4 (state part): a mounted view without a route id reports ready; a view
\* whose init() has ended reports ready, after a redirect when it had a route
\* id and no record was loaded.
C4_ReadyWhenDone ==
  \A m \in Mounts :
    /\ (mountPc[m] # "unmounted" /\ mixedId[m] = Undef) => ReturnedReady(m)
    /\ mountPc[m] = "done" => ReturnedReady(m)
    /\ (mountPc[m] = "done" /\ mixedId[m] # Undef /\ initialMessages[m] = <<>>)
         => redirected[m]

\* C4: every mount with a route id eventually reports ready = true whatever
\* the outcome of initialization and lookup; a mount without a route id
\* reports ready at once.
C4_EventuallyReady ==
  /\ []C4_ReadyWhenDone
  /\ \A m \in Mounts : (mountPc[m] # "unmounted") ~> ReturnedReady(m)

\* C4 witness: a view with a route id, no handle (the open failed), redirected
\* and ready.
C4_Witness ==
  \E m \in Mounts :
    /\ mixedId[m] # Undef
    /\ mountPc[m] = "done"
    /\ db = "none"
    /\ openResult[m] = "undefined"
    /\ redirected[m]
    /\ ReturnedReady(m)

\* ------------------------------ useChatHistory: storeMessageHistory ---

\* The workbench gets its first artifact.
SetFirstArtifact ==
  /\ firstArtifact = NoArtifact
  /\ \E a \in Artifacts : firstArtifact' = a
  /\ UNCHANGED <<storeVars, gwVars, openVars, hookVars, atomVars,
                 persistenceAvailable, location, viewVars, saveVars, idbQueue>>

\* A mutation of SaveIsNoop: an empty message list is saved too.
SaveIsNoopWithoutHandleOnly(msgs) == db = "none"

\* if (!db || messages.length === 0) return;
SaveIsNoop(msgs) == db = "none" \/ Len(msgs) = 0

\* A mutation of CatchOutcome: the failure reaches the caller.
CatchOutcomeRethrown == "rejected"

\* catch (error) { logger.error(...) }: the async function then returns.
CatchOutcome == "resolved"

\* `urlId` as lines 134 and 139 read it: the value the closure captured when
\* the view rendered, which setUrlId does not change.
ClosureUrlId(k) == saveUrlId[k]

\* The catch block of call k after gateway operation op rejected.
Caught(k, op) ==
  /\ saveFailed' = [saveFailed EXCEPT ![k] = op]
  /\ saveOutcome' = [saveOutcome EXCEPT ![k] = CatchOutcome]
  /\ savePc' = [savePc EXCEPT ![k] = "done"]

\* description after step 3 for a call that read artifact fa.
DescriptionAfterStep3(fa) ==
  IF Falsy(description) /\ ~Falsy(fa.title) THEN fa.title ELSE description

\* Steps 3 to 5 up to the next await, for a call with artifact fa, closure
\* values slug and init, and argument msgs.
StepsThreeToFive(k, fa, slug, init, msgs) ==
  /\ description' = DescriptionAfterStep3(fa)
  /\ IF Len(init) = 0 /\ Falsy(chatId)
     THEN /\ savePc' = [savePc EXCEPT ![k] = "awaitGetNextId"]
          /\ saveOps' = [saveOps EXCEPT ![k] = @ \cup {"getNextId"}]
          /\ UNCHANGED saveRec
     ELSE /\ savePc' = [savePc EXCEPT ![k] = "awaitSetMessages"]
          /\ saveOps' = [saveOps EXCEPT ![k] = @ \cup {"setMessages"}]
          /\ saveRec' = [saveRec EXCEPT ![k] =
               {MakeRecord(chatId, msgs, slug, DescriptionAfterStep3(fa), now)}]

\* storeMessageHistory(msgs) called on the closure of view m's last render,
\* up to its first await. Calls take the slots in order.
SaveCall(k) ==
  /\ savePc[k] = "idle"
  /\ \A j \in SaveSlots : (j # k /\ savePc[j] = "idle") => k = "s1"
  /\ \E m \in Mounts, msgs \in SaveMessages :
       /\ mountPc[m] # "unmounted"
       /\ saveView' = [saveView EXCEPT ![k] = m]
       /\ saveMsgs' = [saveMsgs EXCEPT ![k] = msgs]
       /\ saveUrlId' = [saveUrlId EXCEPT ![k] = urlId[m]]
       /\ saveInitial' = [saveInitial EXCEPT ![k] = initialMessages[m]]
       /\ IF SaveIsNoop(msgs)
          THEN /\ savePc' = [savePc EXCEPT ![k] = "done"]
               /\ saveOutcome' = [saveOutcome EXCEPT ![k] = "resolved"]
               /\ UNCHANGED <<saveArtifact, saveOps, saveRec, description,
                              idbQueue>>
          ELSE /\ saveArtifact' = [saveArtifact EXCEPT ![k] = firstArtifact]
               /\ saveOutcome' = [saveOutcome EXCEPT ![k] = "pending"]
               /\ idbQueue' = Append(idbQueue, k)
               /\ IF Falsy(urlId[m]) /\ ~Falsy(firstArtifact.id)
                  THEN /\ savePc' = [savePc EXCEPT ![k] = "awaitGetUrlId"]
                       /\ saveOps' = [saveOps EXCEPT ![k] = @ \cup {"getUrlId"}]
                       /\ UNCHANGED <<saveRec, description>>
                  ELSE StepsThreeToFive(k, firstArtifact, urlId[m],
                                        initialMessages[m], msgs)
  /\ UNCHANGED <<storeVars, gwVars, openVars, hookVars, chatId, pageVars,
                 location, viewVars, saveNewUrlId, saveNextId, saveNavs,
                 saveFailed>>

\* getUrlId answers: navigateChat(newUrlId), setUrlId(newUrlId), steps 3 on.
SaveGetUrlIdResume(k) ==
  /\ savePc[k] = "awaitGetUrlId"
  /\ CanAnswer(k)
  /\ \E engineFails \in BOOLEAN :
       IF engineFails
       THEN /\ Caught(k, "getUrlId")
            /\ idbQueue' = Answered(k)
            /\ UNCHANGED <<location, urlId, description, saveNewUrlId, saveNavs,
                           saveOps, saveRec>>
       ELSE LET newUrlId == getUrlId(store, saveArtifact[k].id)
            IN  /\ saveNewUrlId' = [saveNewUrlId EXCEPT ![k] = newUrlId]
                /\ location' = Path(newUrlId)
                /\ saveNavs' = [saveNavs EXCEPT ![k] = Append(@, newUrlId)]
                /\ urlId' = [urlId EXCEPT ![saveView[k]] = newUrlId]
                /\ StepsThreeToFive(k, saveArtifact[k], ClosureUrlId(k),
                                    saveInitial[k], saveMsgs[k])
                /\ idbQueue' = Append(Answered(k), k)
                /\ UNCHANGED <<saveFailed, saveOutcome>>
  /\ UNCHANGED <<storeVars, gwVars, openVars, hookVars, chatId, pageVars,
                 mountPc, mixedId, initialMessages, ready, redirected, lookup,
                 handle, saveView, saveMsgs, saveUrlId, saveInitial, saveArtifact,
                 saveNextId>>

\* getNextId answers: chatId.set(nextId), navigateChat(nextId) when the
\* closure holds no slug, then setMessages is issued.
SaveGetNextIdResume(k) ==
  /\ savePc[k] = "awaitGetNextId"
  /\ CanAnswer(k)
  /\ \E engineFails \in BOOLEAN :
       IF engineFails
       THEN /\ Caught(k, "getNextId")
            /\ idbQueue' = Answered(k)
            /\ UNCHANGED <<location, chatId, saveNextId, saveNavs, saveOps,
                           saveRec>>
       ELSE LET nextId == getNextId(store)
            IN  /\ saveNextId' = [saveNextId EXCEPT ![k] = nextId]
                /\ chatId' = nextId
                /\ IF Falsy(ClosureUrlId(k))
                   THEN /\ location' = Path(nextId)
                        /\ saveNavs' = [saveNavs EXCEPT ![k] = Append(@, nextId)]
                   ELSE UNCHANGED <<location, saveNavs>>
                /\ savePc' = [savePc EXCEPT ![k] = "awaitSetMessages"]
                /\ saveOps' = [saveOps EXCEPT ![k] = @ \cup {"setMessages"}]
                /\ saveRec' = [saveRec EXCEPT ![k] =
                     {MakeRecord(nextId, saveMsgs[k], ClosureUrlId(k),
                                 description, now)}]
                /\ idbQueue' = Append(Answered(k), k)
                /\ UNCHANGED <<saveFailed, saveOutcome>>
  /\ UNCHANGED <<storeVars, gwVars, openVars, hookVars, description, pageVars,
                 viewVars, saveView, saveMsgs, saveUrlId, saveInitial,
                 saveArtifact, saveNewUrlId>>

\* setMessages answers: the put committed, or it failed (the engine, a key
\* that is undefined, the unique index on urlId).
SaveSetMessagesResume(k) ==
  /\ savePc[k] = "awaitSetMessages"
  /\ CanAnswer(k)
  /\ idbQueue' = Answered(k)
  /\ \E engineFails \in BOOLEAN, rec \in saveRec[k] :
       IF engineFails \/ rec.id = Undef \/ PutViolatesUnique(store, rec)
       THEN /\ Caught(k, "setMessages")
            /\ UNCHANGED store
       ELSE /\ store' = StorePut(store, rec)
            /\ saveOutcome' = [saveOutcome EXCEPT ![k] = "resolved"]
            /\ savePc' = [savePc EXCEPT ![k] = "done"]
            /\ UNCHANGED saveFailed
  /\ UNCHANGED <<now, gwVars, openVars, hookVars, atomVars, pageVars, location,
                 viewVars, saveView, saveMsgs, saveUrlId, saveInitial,
                 saveArtifact, saveNewUrlId, saveNextId, saveRec, saveNavs,
                 saveOps>>

SaveSteps(k) ==
  \/ SaveCall(k)
  \/ SaveGetUrlIdResume(k)
  \/ SaveGetNextIdResume(k)
  \/ SaveSetMessagesResume(k)

\* deleteById(db, id) called by the page on a stored chat. Its transaction
\* runs once the requests created before it are answered; those still waiting
\* are the ones created after it.
PageDeleteById ==
  /\ \E id \in Keys(store) : store' = StoreDelete(store, id)
  /\ UNCHANGED <<now, gwVars, openVars, sessVars>>

\* The page: views mount, the workbench gets an artifact, the chat is saved,
\* chats are deleted.
Init == MountInit

Next ==
  \/ \E m \in Mounts : MountSteps(m) \/ OpenEvents(m)
  \/ \E k \in SaveSlots : SaveSteps(k)
  \/ SetFirstArtifact
  \/ PageDeleteById

Spec == Init /\ [][Next]_vars

\* One view and the saves of its session, nothing else touching the store.
SessionNext ==
  \/ MountSteps("m1")
  \/ OpenEvents("m1")
  \/ \E k \in SaveSlots : SaveSteps(k)
  \/ SetFirstArtifact

SpecSession == Init /\ [][SessionNext]_vars

\* --------------------------------- claims on storeMessageHistory ---

\* C5 as stated: in a call that assigns a slug in step 2, the visible URL
\* after the call is /chat/<slug>; the URL is replaced by /chat/<newId> only
\* in a call that allocates a new primary key and assigned no slug.
C5_UrlShowsSlug ==
  \A k \in SaveSlots :
    savePc[k] = "done" =>
      /\ saveNewUrlId[k] # Undef => saveNavs[k] = <<saveNewUrlId[k]>>
      /\ saveNewUrlId[k] = Undef =>
           \/ saveNavs[k] = <<>>
           \/ saveNextId[k] # Undef /\ saveNavs[k] = <<saveNextId[k]>>

\* C6 as stated: the record handed to put carries the session's id, the given
\* messages, and the slug and description as they stand after steps 2-4 of
\* the same call; a call that assigned a slug writes urlId = that slug.
C6_RecordCarriesSlug ==
  \A k \in SaveSlots :
    \A r \in saveRec[k] :
      /\ r.messages = saveMsgs[k]
      /\ saveNextId[k] # Undef => r.id = saveNextId[k]
      /\ saveNewUrlId[k] # Undef => r.urlId = saveNewUrlId[k]
      /\ saveNewUrlId[k] = Undef => r.urlId = saveUrlId[k]

\* C7: storeMessageHistory(messages) is a no-op when no handle is available
\* or messages is empty: the call ends at once having issued no gateway
\* operation, and the stored records, chatId, description, the session's slug
\* and the visible URL are unchanged.
C7_NoopSave ==
  [][\A k \in SaveSlots :
       (savePc[k] = "idle" /\ savePc'[k] # "idle"
          /\ (db = "none" \/ saveMsgs'[k] = <<>>)) =>
         /\ savePc'[k] = "done"
         /\ saveOutcome'[k] = "resolved"
         /\ saveOps'[k] = {}
         /\ saveRec'[k] = None
         /\ store' = store
         /\ chatId' = chatId
         /\ description' = description
         /\ urlId' = urlId
         /\ location' = location]_vars

\* C7 witness: an empty message list given to a view that has a handle, an
\* artifact to name the chat after, and no slug or id yet.
C7_Witness ==
  \E k \in SaveSlots :
    /\ savePc[k] = "done"
    /\ saveMsgs[k] = <<>>
    /\ saveOps[k] = {}
    /\ db = "db"
    /\ firstArtifact # NoArtifact
    /\ chatId = Undef
    /\ store = {}

\* C8: storeMessageHistory never rejects or throws: a failure of getUrlId,
\* getNextId or setMessages is caught and the call's promise resolves.
C8_SaveNeverRejects ==
  \A k \in SaveSlots :
    /\ saveOutcome[k] # "rejected"
    /\ saveFailed[k] # Undef => (savePc[k] = "done" /\ saveOutcome[k] = "resolved")
    /\ savePc[k] = "done" => saveOutcome[k] = "resolved"

\* C8 witness: one call lost its getUrlId, another its setMessages to the
\* unique index, and both resolved.
C8_Witness ==
  \E k \in SaveSlots, j \in SaveSlots :
    /\ saveFailed[k] = "getUrlId"
    /\ saveFailed[j] = "setMessages"
    /\ saveOutcome[k] = "resolved"
    /\ saveOutcome[j] = "resolved"

\* ------------------------------------------- claims on the gateway ---

\* Slugs held by the records of the store (a record with no urlId holds none).
UsedUrlIds(st) == {r.urlId : r \in {q \in st : q.urlId # Undef}}

\* C9: getMessages(handle, k) returns the record whose primary key is k when
\* one exists (also when another record has urlId = k), otherwise the record
\* whose urlId is k when one exists, otherwise undefined, without error.
C9_PrimaryWinsThenSlug ==
  (gwOp = "getMessages" /\ gwOutcome = "resolved") =>
    LET prim == {r \in store : r.id = gwKey}
        sec == {r \in store : r.urlId = gwKey}
    IN  /\ prim # {} => gwRecs = prim
        /\ (prim = {} /\ sec # {}) => gwRecs = sec
        /\ (prim = {} /\ sec = {}) => gwRecs = None
        /\ Cardinality(gwRecs) <= 1

\* C9 witness: a lookup by a key that is one record's id and another's slug.
C9_Witness ==
  /\ gwOp = "getMessages"
  /\ gwOutcome = "resolved"
  /\ \E r1 \in store, r2 \in store :
       /\ r1.id = gwKey
       /\ r2.id # gwKey
       /\ r2.urlId = gwKey
       /\ gwRecs = {r1}

\* C10 as stated: getUrlId(handle, c) returns c when no record has urlId = c;
\* otherwise c-k for the smallest k >= 2 such that no record has urlId = c-k;
\* the returned slug is never the urlId of an existing record.
C10_UniqueSlug ==
  (gwOp = "getUrlId" /\ gwOutcome = "resolved") =>
    LET used == UsedUrlIds(store)
    IN  /\ gwKey \notin used => gwStr = gwKey
        /\ gwKey \in used =>
             \E k \in 2..(Cardinality(store) + 2) :
               /\ gwStr = Suffixed(gwKey, k)
               /\ \A j \in 2..(k - 1) : Suffixed(gwKey, j) \in used
        /\ gwStr \notin used

\* C10 on non-empty candidates only (the part of C10 the code meets).
C10_UniqueSlugNonEmpty ==
  (gwOp = "getUrlId" /\ gwOutcome = "resolved" /\ gwKey # "") => C10_UniqueSlug

\* A probe that has to skip both c and c-2.
C10_ProbeReached ==
  /\ gwOp = "getUrlId"
  /\ gwOutcome = "resolved"
  /\ gwKey = "foo"
  /\ {"foo", "foo-2"} \subseteq UsedUrlIds(store)
  /\ gwStr = "foo-3"

\* The number the statement reads key k as: a non-numeric key counts as 0.
C11_KeyReadAs(k) == IF ToNumber(k) = NaN THEN 0 ELSE ToNumber(k)

\* C11 as stated: getNextId(handle) returns string(m + 1), m the largest of
\* the stored keys read as numbers, a non-numeric key counting as 0, and
\* m = 0 for an empty store.
C11_NextIdIsMaxPlusOne ==
  (gwOp = "getNextId" /\ gwOutcome = "resolved") =>
    \E m \in 0..MaxKeyNumber :
      /\ \A k \in Keys(store) : C11_KeyReadAs(k) <= m
      /\ m = 0 \/ \E k \in Keys(store) : C11_KeyReadAs(k) = m
      /\ gwStr = ToString(m + 1)

\* C12 as stated: in a sequence of allocations and deleteById calls, every
\* id getNextId returns is numerically greater than every id it returned
\* before, so no id is handed out twice.
C12_IdsIncrease ==
  \A i, j \in 1..Len(issued) :
    i < j => ToNumber(issued[i]) < ToNumber(issued[j])


\* C13: in every reachable state of the store, after any sequence of mounts,
\* saves that succeed or fail, and deletes, no two records have the same id
\* and no two records have the same defined urlId.
C13_UniqueIdAndUrlId ==
  \A r1, r2 \in store :
    r1 # r2 =>
      /\ r1.id # r2.id
      /\ r1.urlId # Undef => r1.urlId # r2.urlId

\* C13 witness: a save ended in the catch block because its record carries
\* the slug of a stored record with another id.
C13_Witness ==
  \E k \in SaveSlots :
    /\ saveFailed[k] = "setMessages"
    /\ \E rec \in saveRec[k] :
         \E r \in store : r.id # rec.id /\ r.urlId # Undef /\ r.urlId = rec.urlId


\* C14: setMessages(handle, id, messages, urlId, description) followed by
\* getMessagesById(handle, id) returns a record with exactly those id,
\* messages, urlId and description and a timestamp refreshed to the time of
\* the write; the write replaces the earlier record with that id in full (a
\* field left undefined is undefined afterwards) and changes no record with
\* another id. (Every step but a tick of the clock is a gateway call.)
C14_RoundTrip ==
  [][(gwOp' = "setMessages" /\ gwOutcome' = "resolved" /\ now' = now) =>
       /\ \E a \in gwArgs' :
            getMessagesById(store', gwKey') =
              {[id |-> gwKey', messages |-> a.messages, urlId |-> a.urlId,
                description |-> a.description, timestamp |-> now]}
       /\ \A old \in getMessagesById(store, gwKey') :
            \A new \in getMessagesById(store', gwKey') :
              old.timestamp <= new.timestamp
       /\ {r \in store' : r.id # gwKey'} = {r \in store : r.id # gwKey'}]_vars

\* C14 witness: a record that held a slug and a description was written again
\* later with both left undefined, next to a record with another id.
C14_Witness ==
  /\ gwOp = "setMessages"
  /\ gwOutcome = "resolved"
  /\ now > 0
  /\ \E a \in gwArgs : a.urlId = Undef /\ a.description = Undef
  /\ \E r \in store : r.id = gwKey /\ r.urlId = Undef /\ r.timestamp = now
  /\ \E r \in store : r.id # gwKey /\ r.urlId = "foo" /\ r.timestamp < now


\* Call k's put commits in this step: a first save (step 4 allocated a key)
\* made while the workbench had no artifact.
C15_FirstSaveCommits(k) ==
  /\ savePc[k] = "awaitSetMessages"
  /\ savePc'[k] = "done"
  /\ saveFailed'[k] = Undef
  /\ saveNextId[k] # Undef
  /\ saveArtifact[k] = NoArtifact

\* What such a save does to the store: one record, with a purely numeric key
\* and no slug, is written and no other record changes; the key is new when
\* no other call was made.
C15_OneNumericRecord(k) ==
  \E r \in saveRec[k] :
    /\ r.id = saveNextId[k]
    /\ r.id \in {ToString(n) : n \in 1..(MaxKeyNumber + 1)}
    /\ r.urlId = Undef
    /\ r.messages = saveMsgs[k] /\ Len(r.messages) > 0
    /\ store' = {x \in store : x.id # r.id} \cup {r}
    /\ (\A j \in SaveSlots \ {k} : savePc[j] = "idle") => r.id \notin Keys(store)

\* C15 as stated: a first save of a non-empty message sequence by a session
\* with no prior id, while firstArtifact is undefined, creates exactly one
\* record whose id is a purely numeric string and whose urlId is absent, and
\* leaves the visible URL unchanged.
C15_FirstSaveKeepsUrl ==
  [][\A k \in SaveSlots :
       C15_FirstSaveCommits(k) =>
         C15_OneNumericRecord(k) /\ saveNavs[k] = <<>>]_vars

\* C15, amended: such a save creates exactly one record whose id is a purely
\* numeric string and whose urlId is absent, and replaces the visible URL by
\* /chat/<that id>.
C15_FirstSaveNavigatesToId ==
  [][\A k \in SaveSlots :
       C15_FirstSaveCommits(k) =>
         C15_OneNumericRecord(k) /\ saveNavs[k] = <<saveNextId[k]>>]_vars

\* C15 witness: the first save of a session on a store that holds chat "1"
\* wrote record "2" and the page shows /chat/2.
C15_Witness ==
  /\ savePc["s1"] = "done"
  /\ savePc["s2"] = "idle"
  /\ saveFailed["s1"] = Undef
  /\ saveArtifact["s1"] = NoArtifact
  /\ saveNextId["s1"] = "2"
  /\ \E r \in store : r.id = "2" /\ r.urlId = Undef /\ r \in saveRec["s1"]
  /\ \E r \in store : r.id = "1"
  /\ location = Path("2")


\* C16 as stated: every initializeDb() call, one that starts while the first
\* is still in flight included, yields the result of the single open
\* attempt: the handle when the attempt succeeds, absence when it fails; so a
\* mount with the route id of a stored, non-empty record is never sent to '/'
\* for want of a handle when the database opens.
C16_EveryMountGetsOpenResult ==
  \A m \in Mounts :
    /\ handle[m] = "none" => \A c \in Callers : openResult[c] # "db"
    /\ handle[m] = "db" => \E c \in Callers : openResult[c] = "db"
    /\ ( /\ redirected[m]
         /\ HasMessages(getMessages(store, mixedId[m]))
         /\ \E c \in Callers : openResult[c] = "db" )
       => handle[m] = "db"


\* Call k is the first storeMessageHistory call made on its view, and the
\* view was mounted without a route id.
C17_FirstSaveOfNewSession(k) ==
  /\ savePc[k] # "idle"
  /\ mixedId[saveView[k]] = Undef
  /\ k = "s1" \/ saveView["s1"] # saveView[k]

\* C17 as stated: a session mounted without a route id starts with no
\* assigned id, even when an earlier session of the process loaded or saved
\* a chat: its first save allocates a new key with getNextId, creates a new
\* record and leaves the earlier chat's record unchanged.
C17_NewSessionAllocates ==
  [][\A k \in SaveSlots :
       ( /\ C17_FirstSaveOfNewSession(k)
         /\ savePc[k] = "awaitSetMessages"
         /\ savePc'[k] = "done"
         /\ saveFailed'[k] = Undef )
       => /\ saveNextId[k] # Undef
          /\ \E r \in saveRec[k] :
               /\ r.id = saveNextId[k]
               /\ r.id \notin Keys(store)
               /\ store' = store \cup {r}]_vars


\* The records in the store that the calls of the session wrote.
C18_SessionRecords == {r \in store : r \in saveRec["s1"] \cup saveRec["s2"]}

\* Both calls have returned and a write of the session committed.
C18_BothReturned ==
  /\ \A k \in SaveSlots : savePc[k] = "done"
  /\ \E k \in SaveSlots : saveRec[k] # None /\ saveFailed[k] = Undef

\* C18: two storeMessageHistory calls of one brand-new session, the second
\* starting before the first has finished its awaits: however their getUrlId,
\* getNextId and setMessages steps interleave, the session ends with exactly
\* one record in the store, chatId is that record's id, and chatId, once set,
\* never changes.
C18_OneRecordOneId ==
  [][mixedId'["m1"] = Undef =>
       /\ chatId # Undef => chatId' = chatId
       /\ C18_BothReturned' =>
            /\ Cardinality(C18_SessionRecords') = 1
            /\ \A r \in C18_SessionRecords' : r.id = chatId']_vars

\* C18 witness: both calls of a session mounted without a route id asked
\* getNextId for a key, both wrote, and the store holds one record of theirs.
C18_Witness ==
  /\ mixedId["m1"] = Undef
  /\ \A k \in SaveSlots :
       /\ savePc[k] = "done"
       /\ saveFailed[k] = Undef
       /\ saveNextId[k] = "2"
  /\ chatId = "2"
  /\ Cardinality(C18_SessionRecords) = 1
  /\ Cardinality(store) = 2


\* The route ids the visible URL can show: those views mounted on and those
\* the calls navigated to.
C19_RouteTargets ==
  RouteIds \cup UNION {{saveNavs[k][i] : i \in 1..Len(saveNavs[k])} : k \in SaveSlots}

\* C19 as stated: after a storeMessageHistory call that completes with a
\* successful write, the route id x shown in the visible URL /chat/<x>
\* resolves through getMessages(handle, x) to the record just written.
C19_UrlResolvesToRecord ==
  [][\A k \in SaveSlots :
       ( /\ savePc[k] = "awaitSetMessages"
         /\ savePc'[k] = "done"
         /\ saveFailed'[k] = Undef )
       => \A x \in C19_RouteTargets :
            location' = Path(x) => getMessages(store', x) = saveRec[k]]_vars


====
